---------------------------- MODULE Spec2Model ----------------------------
(***************************************************************************)
(* Model of the two backup scripts of vps-backups:                         *)
(*   compose_backup.py        (the "full" variant: databases and volumes)  *)
(*   compose_mysql_backup.py  (the "mysql" variant: databases only)        *)
(*                                                                         *)
(* Text is modelled as a sequence of one-character strings (a few fixed    *)
(* literals that the code never cuts are kept as one chunk).  An optional  *)
(* Python value is a sequence of length 0 (None) or 1 (the value).         *)
(***************************************************************************)
EXTENDS Integers, Sequences, FiniteSets, TLC

VARIABLES
    variant,        \* "full" (compose_backup.py) or "mysql" (compose_mysql_backup.py)
    pc,             \* position of main()
    exit_code,      \* <<>> while running, <<n>> once the process has ended
    compose_exists, \* compose_file.exists()
    args_service,   \* args.service: <<>> (not given) or <<set of names>>
    config_out,     \* what `docker compose config` returned, <<>> before the call
    config,         \* compose_config_json(): <<>> (None) or <<dict>>
    mysql_services, \* the list main() iterates
    mapping,        \* map_services_to_containers(): service -> containers
    svc_i,          \* index of the service main() is at
    ctr_i,          \* index of the container the current loop is at
    creds,          \* (user, pwd) of the container being dumped
    dbs,            \* databases of the current container still to visit
    mounts,         \* mounts of the current container still to visit
    seen_dbs,       \* main(): seen_dbs
    seen_vols,      \* main(): seen_vols
    dirs,           \* directories created under the output root
    files,          \* files written under the output root: path -> content, writes
    results,        \* results[service] of the backup function being run
    summary,        \* main(): summary, as service -> files
    io,             \* what the last step printed and ran, in order
    all_ok,         \* history: every external command so far exited with code 0
    fn,             \* unit harness: the function applied ("none" before the call)
    arg,            \* unit harness: its argument
    ret             \* unit harness: its result

run_vars == <<variant, pc, exit_code, compose_exists, args_service, config_out,
              config, mysql_services, mapping, svc_i, ctr_i, creds, dbs, mounts,
              seen_dbs, seen_vols, dirs, files, results, summary, io, all_ok>>
unit_vars == <<fn, arg, ret>>
vars == <<run_vars, unit_vars>>

None == <<>>
Some(x) == <<x>>
\* Python truthiness of an optional string: not None and not "".
Truthy(o) == o # None /\ o[1] # <<>>
\* Python `a or b` on optional strings.
Or(a, b) == IF Truthy(a) THEN a ELSE b

Range(s) == {s[i] : i \in 1..Len(s)}

-----------------------------------------------------------------------------
(* Text helpers *)

LowerChars == <<"a","b","c","d","e","f","g","h","i","j","k","l","m",
                "n","o","p","q","r","s","t","u","v","w","x","y","z">>
UpperChars == <<"A","B","C","D","E","F","G","H","I","J","K","L","M",
                "N","O","P","Q","R","S","T","U","V","W","X","Y","Z">>
Digits == {"0","1","2","3","4","5","6","7","8","9"}
Whitespace == {" ", "\t", "\n"}

LowerChar(c) ==
    IF \E i \in DOMAIN UpperChars : UpperChars[i] = c
    THEN LowerChars[CHOOSE i \in DOMAIN UpperChars : UpperChars[i] = c]
    ELSE c
UpperChar(c) ==
    IF \E i \in DOMAIN LowerChars : LowerChars[i] = c
    THEN UpperChars[CHOOSE i \in DOMAIN LowerChars : LowerChars[i] = c]
    ELSE c
\* str.lower(), str.upper()
Lower(s) == [i \in 1..Len(s) |-> LowerChar(s[i])]
Upper(s) == [i \in 1..Len(s) |-> UpperChar(s[i])]

\* str.startswith
StartsWith(s, p) == Len(p) <= Len(s) /\ SubSeq(s, 1, Len(p)) = p
\* `sub in s`
Contains(s, sub) ==
    \E i \in 0..(Len(s) - Len(sub)) : SubSeq(s, i + 1, i + Len(sub)) = sub

\* str.strip(chars): drop the characters of `chars` from both ends.
RECURSIVE LStrip(_, _)
LStrip(s, chars) ==
    IF s # <<>> /\ Head(s) \in chars THEN LStrip(Tail(s), chars) ELSE s
RECURSIVE RStrip(_, _)
RStrip(s, chars) ==
    IF s # <<>> /\ s[Len(s)] \in chars
    THEN RStrip(SubSeq(s, 1, Len(s) - 1), chars) ELSE s
Strip(s, chars) == RStrip(LStrip(s, chars), chars)

\* s.split(sep, 1): <<before, after>> the first sep, or <<s>> without one.
Split1(s, sep) ==
    IF \E i \in DOMAIN s : s[i] = sep
    THEN LET i == CHOOSE i \in DOMAIN s :
                      s[i] = sep /\ \A j \in 1..(i - 1) : s[j] # sep
         IN <<SubSeq(s, 1, i - 1), SubSeq(s, i + 1, Len(s))>>
    ELSE <<s>>

-----------------------------------------------------------------------------
(* find_mysql_services *)

S_mysql == <<"m","y","s","q","l">>
S_mariadb == <<"m","a","r","i","a","d","b">>
S_MYSQL_ == <<"M","Y","S","Q","L","_">>

\* A service of the compose config: [name, image, environment].  image is
\* optional text.  environment is [kind, items]: kind "none" (absent or null),
\* "dict" (items are the mapping's keys) or "list" (items are "KEY=value" texts).
EnvIter(env) == IF env.kind = "none" THEN <<>> ELSE env.items

is_mysql_mysqlonly(svc) ==
    LET image == Lower(Or(svc.image, Some(<<>>))[1])
    IN Contains(image, S_mysql)
is_mysql(svc) ==
    LET image == Lower(Or(svc.image, Some(<<>>))[1])
        env == EnvIter(svc.environment)
    IN \/ Contains(image, S_mysql)
       \/ Contains(image, S_mariadb)
       \/ \E i \in DOMAIN env : StartsWith(Upper(env[i]), S_MYSQL_)

\* config.get("services", {})
ConfigServices(cfg) == IF "services" \in cfg.keys THEN cfg.services ELSE <<>>

RECURSIVE FindLoop(_, _)
FindLoop(services, acc) ==
    IF services = <<>> THEN acc
    ELSE FindLoop(Tail(services),
                  IF is_mysql(Head(services))
                  THEN Append(acc, Head(services).name) ELSE acc)
find_mysql_services(cfg) == FindLoop(ConfigServices(cfg), <<>>)

-----------------------------------------------------------------------------
(* resolve_mysql_credentials *)

K_MYSQL_ROOT_PASSWORD == <<"MYSQL_ROOT_PASSWORD">>
K_MARIADB_ROOT_PASSWORD == <<"MARIADB_ROOT_PASSWORD">>
K_MYSQL_USER == <<"MYSQL_USER">>
K_MARIADB_USER == <<"MARIADB_USER">>
K_MYSQL_USERNAME == <<"MYSQL_USERNAME">>
K_MYSQL_PASSWORD == <<"MYSQL_PASSWORD">>
K_MARIADB_PASSWORD == <<"MARIADB_PASSWORD">>
S_root == <<"root">>

\* dict.get(k): None when the key is absent.
Get(env, k) == IF k \in DOMAIN env THEN Some(env[k]) ELSE None

root_pass_mysqlonly(env) == Get(env, K_MYSQL_ROOT_PASSWORD)
root_pass(env) ==
    Or(Get(env, K_MYSQL_ROOT_PASSWORD), Get(env, K_MARIADB_ROOT_PASSWORD))

\* The result is None or Some(<<user, password>>).
resolve_mysql_credentials(env) ==
    LET user == Or(Or(Get(env, K_MYSQL_USER), Get(env, K_MARIADB_USER)),
                   Get(env, K_MYSQL_USERNAME))
        pwd == Or(Get(env, K_MYSQL_PASSWORD), Get(env, K_MARIADB_PASSWORD))
    IN IF Truthy(root_pass(env)) THEN Some(<<S_root, root_pass(env)[1]>>)
       ELSE IF Truthy(user) /\ Truthy(pwd) THEN Some(<<user[1], pwd[1]>>)
       ELSE None

-----------------------------------------------------------------------------
(* safe_filename_for_bind *)

S_bind_path == <<"b","i","n","d","_","p","a","t","h">>

\* The class [A-Za-z0-9._-] of the regular expression.
SafeChar(c) ==
    \/ c \in Range(LowerChars) \/ c \in Range(UpperChars) \/ c \in Digits
    \/ c \in {".", "_", "-"}

\* re.sub(r"[^A-Za-z0-9._-]+", "_", s): each maximal run of other characters
\* becomes one underscore.
RECURSIVE SubUnsafe(_, _)
SubUnsafe(s, in_run) ==
    IF s = <<>> THEN <<>>
    ELSE IF SafeChar(Head(s)) THEN <<Head(s)>> \o SubUnsafe(Tail(s), FALSE)
    ELSE IF in_run THEN SubUnsafe(Tail(s), TRUE)
    ELSE <<"_">> \o SubUnsafe(Tail(s), TRUE)

strip_underscores_left(base) == LStrip(base, {"_"})
strip_underscores(base) == Strip(base, {"_"})

safe_filename_for_bind(source_path) ==
    LET base == SubUnsafe(Strip(source_path, Whitespace), FALSE)
        stripped == strip_underscores(base)
    IN IF stripped # <<>> THEN stripped ELSE S_bind_path

-----------------------------------------------------------------------------
(* compose_ps_json, map_services_to_containers *)

S_db == <<"d","b">>
S_db2 == <<"d","b","2">>
S_web == <<"w","e","b">>
S_label_key == <<"com.docker.compose.service=">>

\* A command's captured output that is parsed as JSON: json.loads raises
\* JSONDecodeError when kind is "invalid".
compose_ps_json(out) ==
    IF out.code # 0 THEN None
    ELSE IF out.json.kind = "invalid" THEN None
    ELSE Some(out.json)

EmptyMapping(target_services) == [s \in Range(target_services) |-> <<>>]

\* Lines 72-76: the compose ps entries, in order.
RECURSIVE PsLoop(_, _)
PsLoop(items, m) ==
    IF items = <<>> THEN m
    ELSE LET item == Head(items)
             svc == Or(item.Service, item.service)
             name == Or(item.Name, item.name)
         IN PsLoop(Tail(items),
                   IF svc # None /\ svc[1] \in DOMAIN m /\ Truthy(name)
                   THEN [m EXCEPT ![svc[1]] = Append(@, name[1])]
                   ELSE m)

\* Line 92: label_kv in labels
label_matches(labels, svc) == Contains(labels, S_label_key \o svc)

\* Lines 90-95: the first service of list(remaining) the line matches, if any.
FirstMatch(remaining, labels, name) ==
    LET hits == {i \in DOMAIN remaining :
                    label_matches(labels, remaining[i]) /\ Truthy(name)}
    IN IF hits = {} THEN 0
       ELSE CHOOSE i \in hits : \A j \in hits : i <= j

RemoveAt(s, i) == SubSeq(s, 1, i - 1) \o SubSeq(s, i + 1, Len(s))

\* Lines 83-95: the docker ps lines, in order; st is [m, remaining].
RECURSIVE FallbackLoop(_, _)
FallbackLoop(lines, st) ==
    IF lines = <<>> THEN st.m
    ELSE LET line == Head(lines)
         IN IF ~line.valid THEN FallbackLoop(Tail(lines), st)
            ELSE LET labels == Or(line.Labels, Some(<<>>))[1]
                     name == Or(line.Names, line.Name)
                     i == FirstMatch(st.remaining, labels, name)
                 IN IF i = 0 THEN FallbackLoop(Tail(lines), st)
                    ELSE FallbackLoop(Tail(lines),
                           [m |-> [st.m EXCEPT ![st.remaining[i]] = Append(@, name[1])],
                            remaining |-> RemoveAt(st.remaining, i)])

\* target_services is a list without repetitions; the result is a mapping whose
\* insertion order is that of target_services.
map_services_to_containers(target_services, ps_out, dps_out) ==
    LET ps == compose_ps_json(ps_out)
        m0 == EmptyMapping(target_services)
        m1 == IF ps # None /\ ps[1].kind = "list" THEN PsLoop(ps[1].items, m0) ELSE m0
        IsRemaining(s) == m1[s] = <<>>
        remaining == SelectSeq(target_services, IsRemaining)
    IN IF remaining # <<>> /\ dps_out.code = 0
       THEN FallbackLoop(dps_out.lines, [m |-> m1, remaining |-> remaining])
       ELSE m1

-----------------------------------------------------------------------------
(* Sequences over a set, for the inputs *)

SeqsUpTo(S, n) == UNION {[1..k -> S] : k \in 0..n}
Injective(s) == \A i, j \in DOMAIN s : i # j => s[i] # s[j]

MaxServices == 2
MaxPathLen == 4
MaxTargets == 2
MaxPs == 2
MaxLines == 2

-----------------------------------------------------------------------------
(* The state of a run that has not started, for the unit specifications *)

RunIdle ==
    /\ variant = "full"
    /\ pc = "idle"
    /\ exit_code = None
    /\ compose_exists = FALSE
    /\ args_service = None
    /\ config_out = None
    /\ config = None
    /\ mysql_services = <<>>
    /\ mapping = <<>>
    /\ svc_i = 0
    /\ ctr_i = 0
    /\ creds = None
    /\ dbs = <<>>
    /\ mounts = <<>>
    /\ seen_dbs = {}
    /\ seen_vols = {}
    /\ dirs = {}
    /\ files = <<>>
    /\ results = <<>>
    /\ summary = <<>>
    /\ io = <<>>
    /\ all_ok = TRUE

-----------------------------------------------------------------------------
(* Unit specification: find_mysql_services *)

ImagePool ==
    { None,
      Some(<<"m","y","s","q">>),
      Some(<<"m","y","s","q","l",":","8">>),
      Some(<<"M","y","S","Q","L">>),
      Some(<<"x","/","M","a","r","i","a","D","B">>) }
EnvPool ==
    { [kind |-> "none", items |-> <<>>],
      [kind |-> "dict", items |-> << <<"M","A","R","I","A","D","B","_","U">> >>],
      [kind |-> "dict", items |-> << <<"T","Z">>, <<"m","y","s","q","l","_","d","b">> >>],
      [kind |-> "dict", items |-> << <<"M","Y","S","Q","L">> >>],
      [kind |-> "list", items |-> << <<"M","Y","S","Q","L","_","U","=","u">> >>],
      [kind |-> "list", items |-> << <<"P","=","M","Y","S","Q","L","_">> >>],
      [kind |-> "list", items |-> << <<"M","Y","S","Q","L","=","_">> >>] }
ServiceAt(i, image, env) ==
    [name |-> <<"s", ToString(i)>>, image |-> image, environment |-> env]
ClassifyInputs ==
    { [keys |-> {"name"}, services |-> <<>>] } \cup
    { [keys |-> {"services"},
       services |-> [i \in DOMAIN s |-> ServiceAt(i, s[i][1], s[i][2])]] :
      s \in SeqsUpTo(ImagePool \X EnvPool, MaxServices) }

InitClassify == RunIdle /\ fn = "none" /\ arg \in ClassifyInputs /\ ret = <<>>
CallFindMysqlServices ==
    /\ fn = "none"
    /\ fn' = "find_mysql_services"
    /\ ret' = find_mysql_services(arg)
    /\ UNCHANGED <<arg, run_vars>>
SpecClassify == InitClassify /\ [][CallFindMysqlServices]_vars

-----------------------------------------------------------------------------
(* Unit specification: resolve_mysql_credentials *)

CredKeys ==
    { K_MYSQL_ROOT_PASSWORD, K_MARIADB_ROOT_PASSWORD, K_MYSQL_USER, K_MARIADB_USER,
      K_MYSQL_USERNAME, K_MYSQL_PASSWORD, K_MARIADB_PASSWORD }
\* Each variable is absent, empty, or holds a value of its own ("v:" + key).
ValueOf(k) == <<"v:">> \o k
CredsInputs ==
    UNION { { [k \in D |-> IF k \in E THEN <<>> ELSE ValueOf(k)] : E \in SUBSET D } :
            D \in SUBSET CredKeys }

InitCreds == RunIdle /\ fn = "none" /\ arg \in CredsInputs /\ ret = None
CallResolveCredentials ==
    /\ fn = "none"
    /\ fn' = "resolve_mysql_credentials"
    /\ ret' = resolve_mysql_credentials(arg)
    /\ UNCHANGED <<arg, run_vars>>
SpecCreds == InitCreds /\ [][CallResolveCredentials]_vars

-----------------------------------------------------------------------------
(* Unit specification: safe_filename_for_bind *)

PathAlphabet == {"/", " ", "!", "_", "a", "."}
ExamplePath == <<"/","d","a","t","a","/","m","y"," ","a","p","p","!">>
SafeNameInputs == SeqsUpTo(PathAlphabet, MaxPathLen) \cup {ExamplePath, S_bind_path}

InitSafeName == RunIdle /\ fn = "none" /\ arg \in SafeNameInputs /\ ret = <<>>
CallSafeFilename ==
    /\ fn = "none"
    /\ fn' = "safe_filename_for_bind"
    /\ ret' = safe_filename_for_bind(arg)
    /\ UNCHANGED <<arg, run_vars>>
SpecSafeName == InitSafeName /\ [][CallSafeFilename]_vars

-----------------------------------------------------------------------------
(* Unit specification: map_services_to_containers *)

PsItem(S, s, N, n) == [Service |-> S, service |-> s, Name |-> N, name |-> n]
PsItemPool ==
    { PsItem(Some(S_db), None, Some(<<"c1">>), None),
      PsItem(None, Some(S_db2), None, Some(<<"c2">>)),
      PsItem(Some(S_web), None, Some(<<"c3">>), None),
      PsItem(Some(S_db), None, None, None) }
PsJson(kind, items) == [kind |-> kind, items |-> items]
PsPool ==
    { [code |-> 1, json |-> PsJson("invalid", <<>>)],
      [code |-> 0, json |-> PsJson("invalid", <<>>)],
      [code |-> 0, json |-> PsJson("dict", <<>>)] } \cup
    { [code |-> 0, json |-> PsJson("list", items)] :
      items \in SeqsUpTo(PsItemPool, MaxPs) }

S_project_label == <<"com.docker.compose.project=p">>
PsLine(valid, labels, Names, Name) ==
    [valid |-> valid, Labels |-> labels, Names |-> Names, Name |-> Name]
LinePool ==
    { PsLine(FALSE, None, None, None),
      PsLine(TRUE, Some(S_project_label \o <<",">> \o S_label_key \o S_db),
             Some(<<"d1">>), None),
      PsLine(TRUE, Some(S_label_key \o S_db2 \o <<",">> \o S_project_label),
             Some(<<"d2">>), None),
      PsLine(TRUE, Some(S_project_label), Some(<<"d3">>), None),
      PsLine(TRUE, Some(S_label_key \o S_db), None, None) }
DockerPsPool ==
    { [code |-> 1, lines |-> <<>>] } \cup
    { [code |-> 0, lines |-> lines] : lines \in SeqsUpTo(LinePool, MaxLines) }
TargetPool ==
    { t \in SeqsUpTo({S_db, S_db2, S_web}, MaxTargets) : t # <<>> /\ Injective(t) }
MapInputs ==
    [target_services : TargetPool, ps : PsPool, docker_ps : DockerPsPool]

InitMap == RunIdle /\ fn = "none" /\ arg \in MapInputs /\ ret = <<>>
CallMapServices ==
    /\ fn = "none"
    /\ fn' = "map_services_to_containers"
    /\ ret' = map_services_to_containers(arg.target_services, arg.ps, arg.docker_ps)
    /\ UNCHANGED <<arg, run_vars>>
SpecMap == InitMap /\ [][CallMapServices]_vars

-----------------------------------------------------------------------------
(* Properties of find_mysql_services *)

SameLetter(a, b) == LowerChar(a) = LowerChar(b)
ContainsAnyCase(s, w) ==
    \E i \in 0..(Len(s) - Len(w)) : \A k \in 1..Len(w) : SameLetter(s[i + k], w[k])
\* The key of an environment entry: the mapping's key, or the text before the
\* first "=" of a list entry.
EnvKeys(env) ==
    IF env.kind = "none" THEN {}
    ELSE IF env.kind = "dict" THEN Range(env.items)
    ELSE {Split1(env.items[i], "=")[1] : i \in DOMAIN env.items}
HasSignal(svc) ==
    \/ /\ svc.image # None
       /\ \/ ContainsAnyCase(svc.image[1], S_mysql)
          \/ ContainsAnyCase(svc.image[1], S_mariadb)
    \/ \E key \in EnvKeys(svc.environment) :
           /\ Len(key) >= Len(S_MYSQL_)
           /\ \A k \in 1..Len(S_MYSQL_) : SameLetter(key[k], S_MYSQL_[k])

\* C8: find_mysql_services returns, in the order of the services mapping, exactly
\* the names of the services whose image contains mysql or mariadb in any case or
\* that have an environment key starting with MYSQL_ in any case, for mapping and
\* list environments alike; every other service is left out.
C8_ClassifierIsOrderedFilter ==
    fn = "find_mysql_services" =>
        LET svcs == IF "services" \in arg.keys THEN arg.services ELSE <<>>
            idx == {i \in DOMAIN svcs : HasSignal(svcs[i])}
        IN /\ Len(ret) = Cardinality(idx)
           /\ \A i \in idx : ret[Cardinality({j \in idx : j <= i})] = svcs[i].name

C8_Witness ==
    /\ fn = "find_mysql_services"
    /\ Len(arg.services) = 2
    /\ arg.services[1].image = Some(<<"m","y","s","q">>)
    /\ arg.services[1].environment.kind = "dict"
    /\ arg.services[2].image = None
    /\ arg.services[2].environment.kind = "list"
    /\ ret = <<arg.services[2].name>>

-----------------------------------------------------------------------------
(* Properties of resolve_mysql_credentials *)

RootKeys == {K_MYSQL_ROOT_PASSWORD, K_MARIADB_ROOT_PASSWORD}
UserKeys == {K_MYSQL_USER, K_MARIADB_USER, K_MYSQL_USERNAME}
PasswordKeys == {K_MYSQL_PASSWORD, K_MARIADB_PASSWORD}
IsSet(env, k) == k \in DOMAIN env
IsSetNonEmpty(env, k) == k \in DOMAIN env /\ env[k] # <<>>

\* C7 as stated: root with the root password whenever a root password variable
\* is set; otherwise the user and password when a username variable and a
\* password variable are set; otherwise no credentials.
C7_AsStated ==
    fn = "resolve_mysql_credentials" =>
        IF \E k \in RootKeys : IsSet(arg, k)
        THEN \E k \in RootKeys : IsSet(arg, k) /\ ret = Some(<<S_root, arg[k]>>)
        ELSE IF (\E u \in UserKeys : IsSet(arg, u)) /\ (\E p \in PasswordKeys : IsSet(arg, p))
        THEN \E u \in UserKeys, p \in PasswordKeys :
                 IsSet(arg, u) /\ IsSet(arg, p) /\ ret = Some(<<arg[u], arg[p]>>)
        ELSE ret = None

\* C7 (amended): the same with "set" read as "set to a non-empty value": a
\* variable that is set to the empty string counts as absent.
C7_NonEmptyCredentials ==
    fn = "resolve_mysql_credentials" =>
        IF \E k \in RootKeys : IsSetNonEmpty(arg, k)
        THEN \E k \in RootKeys : IsSetNonEmpty(arg, k) /\ ret = Some(<<S_root, arg[k]>>)
        ELSE IF /\ \E u \in UserKeys : IsSetNonEmpty(arg, u)
                /\ \E p \in PasswordKeys : IsSetNonEmpty(arg, p)
        THEN \E u \in UserKeys, p \in PasswordKeys :
                 /\ IsSetNonEmpty(arg, u) /\ IsSetNonEmpty(arg, p)
                 /\ ret = Some(<<arg[u], arg[p]>>)
        ELSE ret = None

C7_Witness ==
    /\ fn = "resolve_mysql_credentials"
    /\ IsSet(arg, K_MYSQL_ROOT_PASSWORD) /\ arg[K_MYSQL_ROOT_PASSWORD] = <<>>
    /\ ~IsSet(arg, K_MARIADB_ROOT_PASSWORD)
    /\ ret = Some(<<ValueOf(K_MARIADB_USER), ValueOf(K_MYSQL_PASSWORD)>>)

-----------------------------------------------------------------------------
(* Properties of safe_filename_for_bind *)

S_data_my_app == <<"d","a","t","a","_","m","y","_","a","p","p">>
NoUnderscores(s) == LET NotUnderscore(c) == c # "_" IN SelectSeq(s, NotUnderscore)
\* The characters of the path that the sanitizer keeps whatever their place.
KeptChars(s) == LET Kept(c) == SafeChar(c) /\ c # "_" IN SelectSeq(s, Kept)
SafeNameGeneral ==
    /\ \A i \in DOMAIN ret : SafeChar(ret[i])
    /\ ret # <<>> /\ ret[1] # "_" /\ ret[Len(ret)] # "_"
    /\ IF KeptChars(arg) = <<>> THEN ret = S_bind_path
       ELSE NoUnderscores(ret) = KeptChars(arg)

\* C9 as stated: the name has no character outside [A-Za-z0-9._-] and no leading
\* or trailing underscore, is the placeholder only when nothing else is left, and
\* the path "/data/my app!" gives "data_my_app_".
C9_AsStated ==
    fn = "safe_filename_for_bind" =>
        /\ SafeNameGeneral
        /\ arg = ExamplePath => ret = S_data_my_app \o <<"_">>

\* C9 (amended): the same, with the path "/data/my app!" giving "data_my_app".
C9_SafeName ==
    fn = "safe_filename_for_bind" =>
        /\ SafeNameGeneral
        /\ arg = ExamplePath => ret = S_data_my_app

C9_Witness ==
    fn = "safe_filename_for_bind" /\ arg = ExamplePath /\ ret = S_data_my_app

-----------------------------------------------------------------------------
(* Properties of map_services_to_containers *)

\* The label string cut at its commas.
RECURSIVE LabelTokens(_)
LabelTokens(labels) ==
    LET parts == Split1(labels, ",")
    IN IF Len(parts) = 1 THEN {labels} ELSE {parts[1]} \cup LabelTokens(parts[2])
HasServiceToken(line, s) ==
    /\ line.valid
    /\ line.Labels # None
    /\ (S_label_key \o s) \in LabelTokens(line.Labels[1])
LineName(line) == Or(line.Names, line.Name)

FromComposePs(ps_out, s) ==
    IF ps_out.code = 0 /\ ps_out.json.kind = "list"
    THEN LET items == ps_out.json.items
             Mine(item) == /\ Or(item.Service, item.service) = Some(s)
                           /\ Truthy(Or(item.Name, item.name))
             mine == SelectSeq(items, Mine)
         IN [i \in DOMAIN mine |-> Or(mine[i].Name, mine[i].name)[1]]
    ELSE <<>>
FromLabels(dps_out, s) ==
    LET hits == IF dps_out.code # 0 THEN {}
                ELSE {i \in DOMAIN dps_out.lines :
                         /\ HasServiceToken(dps_out.lines[i], s)
                         /\ Truthy(LineName(dps_out.lines[i]))}
    IN IF hits = {} THEN <<>>
       ELSE <<LineName(dps_out.lines[CHOOSE i \in hits : \A j \in hits : i <= j])[1]>>

\* C6: a service with containers from compose ps keeps exactly those; any other
\* target service gets at most one container, the first in docker ps order whose
\* label string carries the token com.docker.compose.service=<name> for exactly
\* that service's name.
C6_AsStated ==
    fn = "map_services_to_containers" =>
        \A s \in Range(arg.target_services) :
            ret[s] = IF FromComposePs(arg.ps, s) # <<>> THEN FromComposePs(arg.ps, s)
                     ELSE FromLabels(arg.docker_ps, s)

-----------------------------------------------------------------------------
(* The functions main() calls on the containers *)

\* compose_config_json: the config is [kind, keys, services].
compose_config_json(out) ==
    IF out.code # 0 THEN None
    ELSE IF out.json.kind = "invalid" THEN None
    ELSE Some(out.json)
\* `not config`: None, or a mapping without keys.
ConfigFalsy(cfg) == cfg = None \/ cfg[1].keys = {}

\* inspect_env: `for item in env_list` raises TypeError when the JSON is null.
InspectEnvRaises(out) == out.code = 0 /\ out.json.kind = "null"
RECURSIVE EnvLoop(_, _)
EnvLoop(items, env_map) ==
    IF items = <<>> THEN env_map
    ELSE LET item == Head(items)
         IN EnvLoop(Tail(items),
                    IF item.str /\ "=" \in Range(item.text)
                    THEN LET kv == Split1(item.text, "=")
                         IN (kv[1] :> kv[2]) @@ env_map
                    ELSE env_map)
inspect_env(out) ==
    IF out.code # 0 THEN <<>>
    ELSE EnvLoop(IF out.json.kind = "invalid" THEN <<>> ELSE out.json.items, <<>>)

SYSTEM_DATABASES ==
    { <<"information_schema">>, <<"performance_schema">>, <<"mysql">>, <<"sys">> }
list_databases(out) ==
    IF out.code # 0 THEN <<>>
    ELSE LET NonBlank(line) == Strip(line, Whitespace) # <<>>
             kept == SelectSeq(out.lines, NonBlank)
             names == [i \in DOMAIN kept |-> Strip(kept[i], Whitespace)]
             NotSystem(d) == d \notin SYSTEM_DATABASES
         IN SelectSeq(names, NotSystem)

\* dump_database: the bytes are named by the database and the container they
\* were taken from.
dump_database(container, db, out) ==
    IF out.missing THEN None
    ELSE IF out.code # 0 THEN None
    ELSE Some([of |-> db, by |-> container])

\* inspect_mounts
inspect_mounts(out) ==
    IF out.code # 0 THEN <<>>
    ELSE IF out.json.kind = "invalid" THEN <<>>
    ELSE IF out.json.kind = "list" THEN out.json.items ELSE <<>>

\* docker_tar_mount_source: the helper images in order.  out.rc gives each
\* image's exit code; out.missing is the docker executable not being found.
HelperImages_alpine_first == <<"alpine", "busybox">>
HelperImages == <<"busybox", "alpine">>
RECURSIVE TarLoop(_, _, _)
TarLoop(images, source_spec, out) ==
    IF images = <<>> THEN None
    ELSE IF out.missing THEN None
    ELSE IF out.rc[Head(images)] = 0
         THEN Some([of |-> source_spec, by |-> <<Head(images)>>])
    ELSE TarLoop(Tail(images), source_spec, out)
docker_tar_mount_source(source_spec, out) == TarLoop(HelperImages, source_spec, out)
\* The images whose `docker run` was started, in order.
RECURSIVE TarRuns(_, _)
TarRuns(images, out) ==
    IF images = <<>> THEN <<>>
    ELSE IF out.missing \/ out.rc[Head(images)] = 0 THEN <<Head(images)>>
    ELSE <<Head(images)>> \o TarRuns(Tail(images), out)

S_volume == <<"v","o","l","u","m","e">>
S_bind == <<"b","i","n","d">>
S_backup_src == <<":/_backup_src">>

\* Lines 150-170 of backup_volumes_for_service: what to do with one mount.
MountPlan(m) ==
    LET mtype == Lower(Or(Or(m.Type, m.type), Some(<<>>))[1])
        dest == Or(Or(Or(m.Destination, m.Target), m.destination), m.target)
        src == Or(m.Source, m.source)
        name == Or(m.Name, m.name)
        skip == [skip |-> TRUE, key |-> <<>>, out_name |-> <<>>, source_spec |-> <<>>]
    IN IF ~Truthy(dest) THEN skip
       ELSE IF mtype = S_volume /\ Truthy(name)
       THEN [skip |-> FALSE,
             key |-> <<"volume::">> \o name[1],
             out_name |-> <<"volume__">> \o name[1] \o <<".tar.gz">>,
             source_spec |-> name[1] \o S_backup_src]
       ELSE IF mtype = S_bind /\ Truthy(src)
       THEN [skip |-> FALSE,
             key |-> <<"bind::">> \o src[1],
             out_name |-> <<"bind__">> \o safe_filename_for_bind(src[1]) \o <<".tar.gz">>,
             source_spec |-> src[1] \o S_backup_src]
       ELSE skip

\* The dedup checks and updates of the two backup loops.
AlreadyDumped_never(db, seen) == FALSE
AlreadyDumped(db, seen) == db \in seen
SeenAfterDump_always(seen, db, dump) == seen \cup {db}
SeenAfterDump(seen, db, dump) == IF dump = None THEN seen ELSE seen \cup {db}
AlreadyArchived(key, seen) == key \in seen

\* main(): `if not containers`
NoContainers_never(containers) == FALSE
NoContainers(containers) == containers = <<>>

\* main(): [s for s in mysql_services if s in set(args.service)]
FilterServices_all(services, wanted) == services
FilterServices(services, wanted) ==
    LET Wanted(s) == s \in wanted IN SelectSeq(services, Wanted)

\* Paths under the output root.
OutRoot == <<".">>
DbDir == IF variant = "full" THEN <<"db", "/">> ELSE <<>>
DbFile(db) == DbDir \o db \o <<".sql">>
VolFile(out_name) == <<"volumes", "/">> \o out_name
ComposeCopy == <<"docker-compose.yml">>
DockerDirArchive == <<"docker-dir.tar.gz">>

\* open(filename, "wb"); f.write(data)
WriteFile(fs, path, data) ==
    (path :> [of |-> data.of, by |-> data.by,
              writes |-> IF path \in DOMAIN fs THEN fs[path].writes + 1 ELSE 1]) @@ fs

-----------------------------------------------------------------------------
(* What a step prints and runs *)

\* A printed line: its tag, and the service, container and item it is about.
Line(tag, svc, ctr, item) ==
    [k |-> "print", what |-> tag, svc |-> svc, ctr |-> ctr, item |-> item,
     res |-> "", img |-> ""]
\* An external command, named by the function that runs it; res is "ok" (exit
\* code zero), "fail" (another exit code) or "missing" (FileNotFoundError).
Cmd(cmd, svc, ctr, item, res) ==
    [k |-> "call", what |-> cmd, svc |-> svc, ctr |-> ctr, item |-> item,
     res |-> res, img |-> ""]
CmdRes(code) == IF code = 0 THEN "ok" ELSE "fail"
Emit(events) ==
    /\ io' = events
    /\ all_ok' = (all_ok /\ \A i \in DOMAIN events :
                                events[i].k = "call" => events[i].res = "ok")
Exit(code) == exit_code' = Some(code) /\ pc' = "exited"

-----------------------------------------------------------------------------
(* The outcomes of the external commands of a run *)

MaxContainers == 2

NoEnv == [kind |-> "none", items |-> <<>>]
WebService ==
    [name |-> S_web, image |-> Some(<<"n","g","i","n","x">>), environment |-> NoEnv]
DbService ==
    [name |-> S_db, image |-> Some(<<"m","y","s","q","l",":","8">>),
     environment |-> NoEnv]
Db2Service ==
    [name |-> S_db2, image |-> Some(<<"M","a","r","i","a","D","B">>),
     environment |-> NoEnv]
ConfigJson(kind, keys, services) == [kind |-> kind, keys |-> keys, services |-> services]
ConfigOutPool ==
    { [code |-> 1, json |-> ConfigJson("invalid", {}, <<>>)],
      [code |-> 0, json |-> ConfigJson("invalid", {}, <<>>)],
      [code |-> 0, json |-> ConfigJson("dict", {}, <<>>)],
      [code |-> 0, json |-> ConfigJson("dict", {"services"}, <<WebService>>)],
      [code |-> 0, json |-> ConfigJson("dict", {"services"}, <<WebService, DbService>>)],
      [code |-> 0, json |-> ConfigJson("dict", {"services"}, <<DbService, Db2Service>>)] }

S_nonexistent == <<"nonexistent">>
ArgsPool == { None, Some({S_db2}), Some({S_nonexistent}) }

ContainerAt(i) == <<"c", ToString(i)>>
RunPsPool ==
    { [code |-> 1, json |-> PsJson("invalid", <<>>)] } \cup
    { [code |-> 0,
       json |-> PsJson("list",
                  [i \in DOMAIN s |-> PsItem(Some(s[i]), None, Some(ContainerAt(i)), None)])] :
      s \in SeqsUpTo({S_db, S_db2}, MaxContainers) }
RunDockerPsPool ==
    { [code |-> 1, lines |-> <<>>],
      [code |-> 0, lines |-> << PsLine(TRUE, Some(S_label_key \o S_db), Some(<<"d1">>), None) >>] }

EnvItem(text) == [str |-> TRUE, text |-> text]
EnvJson(kind, items) == [kind |-> kind, items |-> items]
EnvOutPool ==
    { [code |-> 1, json |-> EnvJson("invalid", <<>>)],
      [code |-> 0, json |-> EnvJson("invalid", <<>>)],
      [code |-> 0, json |-> EnvJson("null", <<>>)],
      [code |-> 0, json |-> EnvJson("list", << EnvItem(<<"PATH", "=", "/bin">>),
                                               [str |-> FALSE, text |-> <<>>] >>)],
      [code |-> 0, json |-> EnvJson("list", << EnvItem(<<"PATH", "=", "/bin">>),
                                               EnvItem(<<"MYSQL_ROOT_PASSWORD", "=", "r">>) >>)],
      [code |-> 0, json |-> EnvJson("list", << EnvItem(<<"MARIADB_USER", "=", "u">>),
                                               EnvItem(<<"MYSQL_PASSWORD", "=", "p", "=", "q">>) >>)] }

D_appdb == <<"appdb">>
D_shop == <<"shop">>
ListOutPool ==
    { [code |-> 1, lines |-> <<>>],
      [code |-> 0, lines |-> << <<"information_schema">>, <<"mysql">> >>],
      [code |-> 0, lines |-> << <<"information_schema">>, D_appdb, <<>> >>],
      [code |-> 0, lines |-> << D_appdb, <<" ">>, <<" ">> \o D_shop \o <<" ">>, <<"sys">> >>] }

DumpOutPool ==
    { [missing |-> TRUE, code |-> 0],
      [missing |-> FALSE, code |-> 1],
      [missing |-> FALSE, code |-> 0] }

Mount(Type, Destination, Source, Name) ==
    [Type |-> Type, type |-> None, Destination |-> Destination, Target |-> None,
     destination |-> None, target |-> None, Source |-> Source, source |-> None,
     Name |-> Name, name |-> None]
S_mysql_dir == <<"/var/lib/mysql">>
M_volume == Mount(Some(S_volume), Some(S_mysql_dir), Some(<<"/var/lib/docker/volumes/dbdata/_data">>),
                  Some(<<"dbdata">>))
M_bind_a_b == Mount(Some(S_bind), Some(<<"/conf">>), Some(<<"/","a","/","b">>), None)
M_bind_a__b == Mount(Some(S_bind), Some(<<"/init">>), Some(<<"/","a","_","b">>), None)
M_tmpfs == Mount(Some(<<"t","m","p","f","s">>), Some(<<"/tmp">>), None, None)
M_nodest == Mount(Some(S_volume), None, None, Some(<<"orphan">>))
\* The same volume, under the lower-case keys.
M_volume_lc ==
    [Type |-> None, type |-> Some(S_volume), Destination |-> None, Target |-> None,
     destination |-> None, target |-> Some(S_mysql_dir), Source |-> None,
     source |-> Some(<<"/var/lib/docker/volumes/dbdata/_data">>),
     Name |-> None, name |-> Some(<<"dbdata">>)]
MountJson(kind, items) == [kind |-> kind, items |-> items]
MountOutPool ==
    { [code |-> 1, json |-> MountJson("invalid", <<>>)],
      [code |-> 0, json |-> MountJson("invalid", <<>>)],
      [code |-> 0, json |-> MountJson("null", <<>>)],
      [code |-> 0, json |-> MountJson("list", <<M_volume, M_tmpfs>>)],
      [code |-> 0, json |-> MountJson("list", <<M_volume_lc>>)],
      [code |-> 0, json |-> MountJson("list", <<M_bind_a_b, M_nodest, M_bind_a__b>>)] }

TarOutPool ==
    { [missing |-> TRUE, rc |-> [busybox |-> 1, alpine |-> 1]],
      [missing |-> FALSE, rc |-> [busybox |-> 0, alpine |-> 0]],
      [missing |-> FALSE, rc |-> [busybox |-> 1, alpine |-> 0]],
      [missing |-> FALSE, rc |-> [busybox |-> 125, alpine |-> 1]] }

\* backup_compose_file and backup_docker_directory: whether shutil.copy2 raised,
\* and --docker-dir: not given or not there ("absent"), archived ("ok"), or tar
\* failing ("fail").
PrepPool ==
    { [copy_ok |-> TRUE, docker_dir |-> "absent"],
      [copy_ok |-> FALSE, docker_dir |-> "ok"],
      [copy_ok |-> TRUE, docker_dir |-> "fail"] }

-----------------------------------------------------------------------------
(* main() *)

Init ==
    /\ variant \in {"full", "mysql"}
    /\ pc = "start"
    /\ exit_code = None
    /\ compose_exists \in BOOLEAN
    /\ args_service \in ArgsPool
    /\ config_out = None
    /\ config = None
    /\ mysql_services = <<>>
    /\ mapping = <<>>
    /\ svc_i = 0
    /\ ctr_i = 0
    /\ creds = None
    /\ dbs = <<>>
    /\ mounts = <<>>
    /\ seen_dbs = {}
    /\ seen_vols = {}
    /\ dirs = {}
    /\ files = <<>>
    /\ results = <<>>
    /\ summary = <<>>
    /\ io = <<>>
    /\ all_ok = TRUE
    /\ fn = "main"
    /\ arg = <<>>
    /\ ret = <<>>

inputs == <<variant, compose_exists, args_service, fn, arg, ret>>
CurSvc == mysql_services[svc_i]
CurContainers == mapping[CurSvc]
CurCtr == CurContainers[ctr_i]

\* if not compose_file.exists(): exit 2
CheckComposeFile ==
    /\ pc = "start"
    /\ IF ~compose_exists
       THEN Emit(<<Line("ERROR", <<>>, <<>>, <<"Compose file not found">>)>>) /\ Exit(2)
       ELSE Emit(<<>>) /\ pc' = "config" /\ UNCHANGED exit_code
    /\ UNCHANGED <<inputs, config_out, config, mysql_services, mapping, svc_i, ctr_i,
                   creds, dbs, mounts, seen_dbs, seen_vols, dirs, files, results,
                   summary>>

\* config = compose_config_json(compose_file); if not config: exit 2
LoadConfig ==
    /\ pc = "config"
    /\ \E out \in ConfigOutPool :
         LET cfg == compose_config_json(out)
             run == Cmd("compose_config_json", <<>>, <<>>, <<>>, CmdRes(out.code))
         IN /\ config_out' = Some(out)
            /\ config' = cfg
            /\ IF ConfigFalsy(cfg)
               THEN /\ Emit(<<run, Line("ERROR", <<>>, <<>>,
                                        <<"Failed to load Compose config (JSON)">>)>>)
                    /\ Exit(2)
               ELSE Emit(<<run>>) /\ pc' = "classify" /\ UNCHANGED exit_code
    /\ UNCHANGED <<inputs, mysql_services, mapping, svc_i, ctr_i, creds, dbs, mounts,
                   seen_dbs, seen_vols, dirs, files, results, summary>>

\* find_mysql_services, the --service filter and the two "no service" exits
SelectServices ==
    /\ pc = "classify"
    /\ LET found == find_mysql_services(config[1])
           selected == IF args_service # None
                       THEN FilterServices(found, args_service[1]) ELSE found
       IN IF args_service # None /\ selected = <<>>
          THEN /\ Emit(<<Line("ERROR", <<>>, <<>>,
                              <<"No matching MySQL services after applying --service filter">>)>>)
               /\ Exit(2)
               /\ UNCHANGED mysql_services
          ELSE IF selected = <<>>
          THEN /\ Emit(<<Line("ERROR", <<>>, <<>>,
                              <<"No MySQL/MariaDB services detected in compose file">>)>>)
               /\ Exit(2)
               /\ UNCHANGED mysql_services
          ELSE /\ Emit(<<>>)
               /\ mysql_services' = selected
               /\ pc' = "map"
               /\ UNCHANGED exit_code
    /\ UNCHANGED <<inputs, config_out, config, mapping, svc_i, ctr_i, creds, dbs,
                   mounts, seen_dbs, seen_vols, dirs, files, results, summary>>

\* mapping = map_services_to_containers(compose_file, mysql_services)
MapContainers ==
    /\ pc = "map"
    /\ \E ps \in RunPsPool, dps \in RunDockerPsPool :
         LET primary == map_services_to_containers(mysql_services, ps,
                                                   [code |-> 1, lines |-> <<>>])
             fallback == \E s \in DOMAIN primary : primary[s] = <<>>
         IN /\ mapping' = map_services_to_containers(mysql_services, ps, dps)
            /\ Emit(<<Cmd("compose_ps_json", <<>>, <<>>, <<>>, CmdRes(ps.code))>> \o
                    IF fallback
                    THEN <<Cmd("docker ps", <<>>, <<>>, <<>>, CmdRes(dps.code))>>
                    ELSE <<>>)
    /\ pc' = "prepare"
    /\ UNCHANGED <<inputs, exit_code, config_out, config, mysql_services, svc_i, ctr_i,
                   creds, dbs, mounts, seen_dbs, seen_vols, dirs, files, results,
                   summary>>

\* ensure_dir(out_dir); in the full variant backup_compose_file and
\* backup_docker_directory; then the empty dedup sets and summary.
PrepareOutput ==
    /\ pc = "prepare"
    /\ dirs' = dirs \cup {OutRoot}
    /\ IF variant = "full"
       THEN \E prep \in PrepPool :
              LET copied == IF prep.copy_ok
                            THEN WriteFile(files, ComposeCopy,
                                           [of |-> <<"compose file">>, by |-> <<>>])
                            ELSE files
                  tarred == IF prep.docker_dir = "ok"
                            THEN WriteFile(copied, DockerDirArchive,
                                           [of |-> <<"docker dir">>, by |-> <<>>])
                            ELSE copied
              IN /\ files' = tarred
                 /\ Emit(<<Line(IF prep.copy_ok THEN "OK" ELSE "WARN", <<>>, <<>>,
                                ComposeCopy)>> \o
                         IF prep.docker_dir = "absent" THEN <<>>
                         ELSE <<Cmd("backup_docker_directory", <<>>, <<>>, <<>>,
                                    prep.docker_dir),
                                Line(IF prep.docker_dir = "ok" THEN "OK" ELSE "WARN",
                                     <<>>, <<>>, DockerDirArchive)>>)
       ELSE Emit(<<>>) /\ UNCHANGED files
    /\ seen_dbs' = {}
    /\ seen_vols' = {}
    /\ summary' = <<>>
    /\ svc_i' = 1
    /\ pc' = "svc_loop"
    /\ UNCHANGED <<inputs, exit_code, config_out, config, mysql_services, mapping,
                   ctr_i, creds, dbs, mounts, results>>

\* for svc, containers in mapping.items(): warn and skip a service without
\* containers, else enter backup_service_containers (which makes db_dir in the
\* full variant).
ServiceLoop ==
    /\ pc = "svc_loop"
    /\ svc_i <= Len(mysql_services)
    /\ IF NoContainers(CurContainers)
       THEN /\ Emit(<<Line("WARN", CurSvc, <<>>, <<"No running containers for service">>)>>)
            /\ svc_i' = svc_i + 1
            /\ UNCHANGED <<pc, ctr_i, results, dirs>>
       ELSE /\ Emit(<<>>)
            /\ results' = <<>>
            /\ dirs' = IF variant = "full" THEN dirs \cup {<<"db">>} ELSE dirs
            /\ ctr_i' = 1
            /\ pc' = "db_loop"
            /\ UNCHANGED svc_i
    /\ UNCHANGED <<inputs, exit_code, config_out, config, mysql_services, mapping,
                   creds, dbs, mounts, seen_dbs, seen_vols, files, summary>>

\* backup_service_containers: one container up to its database list.
DbContainer ==
    /\ pc = "db_loop"
    /\ ctr_i <= Len(CurContainers)
    /\ \E env_out \in EnvOutPool, list_out \in ListOutPool :
         LET env == inspect_env(env_out)
             cr == resolve_mysql_credentials(env)
             listed == list_databases(list_out)
             run_env == Cmd("inspect_env", CurSvc, CurCtr, <<>>, CmdRes(env_out.code))
             run_list == Cmd("list_databases", CurSvc, CurCtr, <<>>, CmdRes(list_out.code))
         IN IF InspectEnvRaises(env_out)
            THEN /\ Emit(<<run_env>>)
                 /\ Exit(1)
                 /\ UNCHANGED <<ctr_i, creds, dbs>>
            ELSE IF cr = None
            THEN /\ Emit(<<run_env, Line("WARN", CurSvc, CurCtr,
                                         <<"No MySQL credentials found in environment">>)>>)
                 /\ ctr_i' = ctr_i + 1
                 /\ UNCHANGED <<pc, exit_code, creds, dbs>>
            ELSE IF listed = <<>>
            THEN /\ Emit(<<run_env, run_list,
                           Line("WARN", CurSvc, CurCtr, <<"No user databases found">>)>>)
                 /\ ctr_i' = ctr_i + 1
                 /\ UNCHANGED <<pc, exit_code, creds, dbs>>
            ELSE /\ Emit(<<run_env, run_list>>)
                 /\ creds' = cr
                 /\ dbs' = listed
                 /\ pc' = "db_dump"
                 /\ UNCHANGED <<exit_code, ctr_i>>
    /\ UNCHANGED <<inputs, config_out, config, mysql_services, mapping, svc_i, mounts,
                   seen_dbs, seen_vols, dirs, files, results, summary>>

\* backup_service_containers: one database of the current container.  After the
\* container's last database its credentials (locals of the loop body) are dead.
DbDump ==
    /\ pc = "db_dump"
    /\ \E out \in DumpOutPool :
         LET db == Head(dbs)
             dump == dump_database(CurCtr, db, out)
             run == Cmd("dump_database", CurSvc, CurCtr, db,
                        IF out.missing THEN "missing" ELSE CmdRes(out.code))
         IN IF AlreadyDumped(db, seen_dbs)
            THEN /\ Emit(<<Line("SKIP", CurSvc, CurCtr, db)>>)
                 /\ UNCHANGED <<files, seen_dbs, results>>
            ELSE IF dump = None
            THEN /\ Emit(<<run, Line("ERROR", CurSvc, CurCtr, db)>>)
                 /\ seen_dbs' = SeenAfterDump(seen_dbs, db, dump)
                 /\ UNCHANGED <<files, results>>
            ELSE /\ Emit(<<run, Line("OK", CurSvc, CurCtr, db)>>)
                 /\ files' = WriteFile(files, DbFile(db), dump[1])
                 /\ seen_dbs' = SeenAfterDump(seen_dbs, db, dump)
                 /\ results' = Append(results, DbFile(db))
    /\ dbs' = Tail(dbs)
    /\ IF Tail(dbs) = <<>>
       THEN ctr_i' = ctr_i + 1 /\ pc' = "db_loop" /\ creds' = None
       ELSE UNCHANGED <<ctr_i, pc, creds>>
    /\ UNCHANGED <<inputs, exit_code, config_out, config, mysql_services, mapping,
                   svc_i, mounts, seen_vols, dirs, summary>>

\* backup_service_containers returns: summary.update(res); the full variant goes
\* on to backup_volumes_for_service (which makes vol_dir), the mysql variant to
\* the next service.
DbReturn ==
    /\ pc = "db_loop"
    /\ ctr_i > Len(CurContainers)
    /\ Emit(<<>>)
    /\ summary' = (CurSvc :> results) @@ summary
    /\ IF variant = "full"
       THEN /\ results' = <<>>
            /\ dirs' = dirs \cup {<<"volumes">>}
            /\ ctr_i' = 1
            /\ pc' = "vol_loop"
            /\ UNCHANGED svc_i
       ELSE /\ svc_i' = svc_i + 1
            /\ pc' = "svc_loop"
            /\ UNCHANGED <<results, dirs, ctr_i>>
    /\ UNCHANGED <<inputs, exit_code, config_out, config, mysql_services, mapping,
                   creds, dbs, mounts, seen_dbs, seen_vols, files>>

\* backup_volumes_for_service: one container up to its mount list.
VolContainer ==
    /\ pc = "vol_loop"
    /\ ctr_i <= Len(CurContainers)
    /\ \E out \in MountOutPool :
         LET listed == inspect_mounts(out)
         IN /\ Emit(<<Cmd("inspect_mounts", CurSvc, CurCtr, <<>>, CmdRes(out.code))>>)
            /\ IF listed = <<>>
               THEN ctr_i' = ctr_i + 1 /\ UNCHANGED <<pc, mounts>>
               ELSE mounts' = listed /\ pc' = "vol_mount" /\ UNCHANGED ctr_i
    /\ UNCHANGED <<inputs, exit_code, config_out, config, mysql_services, mapping,
                   svc_i, creds, dbs, seen_dbs, seen_vols, dirs, files, results,
                   summary>>

\* backup_volumes_for_service: one mount of the current container.
VolMount ==
    /\ pc = "vol_mount"
    /\ \E out \in TarOutPool :
         LET plan == MountPlan(Head(mounts))
             data == docker_tar_mount_source(plan.source_spec, out)
             images == TarRuns(HelperImages, out)
             runs == [i \in DOMAIN images |->
                        [Cmd("docker_tar_mount_source", CurSvc, CurCtr, plan.source_spec,
                             IF out.missing THEN "missing"
                             ELSE CmdRes(out.rc[images[i]]))
                         EXCEPT !.img = images[i]]]
         IN IF plan.skip \/ AlreadyArchived(plan.key, seen_vols)
            THEN /\ Emit(<<>>)
                 /\ UNCHANGED <<files, seen_vols, results>>
            ELSE IF data = None
            THEN /\ Emit(runs \o <<Line("ERROR", CurSvc, CurCtr, plan.key)>>)
                 /\ UNCHANGED <<files, seen_vols, results>>
            ELSE /\ Emit(runs \o <<Line("OK", CurSvc, CurCtr, plan.key)>>)
                 /\ files' = WriteFile(files, VolFile(plan.out_name), data[1])
                 /\ seen_vols' = seen_vols \cup {plan.key}
                 /\ results' = Append(results, VolFile(plan.out_name))
    /\ mounts' = Tail(mounts)
    /\ IF Tail(mounts) = <<>>
       THEN ctr_i' = ctr_i + 1 /\ pc' = "vol_loop"
       ELSE UNCHANGED <<ctr_i, pc>>
    /\ UNCHANGED <<inputs, exit_code, config_out, config, mysql_services, mapping,
                   svc_i, creds, dbs, seen_dbs, dirs, summary>>

\* backup_volumes_for_service returns: main() extends summary[svc].
VolReturn ==
    /\ pc = "vol_loop"
    /\ ctr_i > Len(CurContainers)
    /\ Emit(<<>>)
    /\ summary' = IF CurSvc \in DOMAIN summary
                  THEN [summary EXCEPT ![CurSvc] = @ \o results]
                  ELSE (CurSvc :> results) @@ summary
    /\ svc_i' = svc_i + 1
    /\ pc' = "svc_loop"
    /\ UNCHANGED <<inputs, exit_code, config_out, config, mysql_services, mapping,
                   ctr_i, creds, dbs, mounts, seen_dbs, seen_vols, dirs, files,
                   results>>

\* The lines of the summary: per service of summary, in insertion order, its
\* header and its files.
RECURSIVE SummaryLines(_)
SummaryLines(svcs) ==
    IF svcs = <<>> THEN <<>>
    ELSE LET svc == Head(svcs)
         IN (IF svc \in DOMAIN summary
             THEN <<Line("Service", svc, <<>>, <<>>)>> \o
                  [i \in DOMAIN summary[svc] |-> Line("-", svc, <<>>, summary[svc][i])]
             ELSE <<>>) \o SummaryLines(Tail(svcs))

\* The loop over the services is over: print the summary; main() returns.
PrintSummary ==
    /\ pc = "svc_loop"
    /\ svc_i > Len(mysql_services)
    /\ Emit(<<Line("Summary", <<>>, <<>>, <<>>)>> \o SummaryLines(mysql_services))
    /\ Exit(0)
    /\ UNCHANGED <<inputs, config_out, config, mysql_services, mapping, svc_i, ctr_i,
                   creds, dbs, mounts, seen_dbs, seen_vols, dirs, files, results,
                   summary>>

Next ==
    \/ CheckComposeFile
    \/ LoadConfig
    \/ SelectServices
    \/ MapContainers
    \/ PrepareOutput
    \/ ServiceLoop
    \/ DbContainer
    \/ DbDump
    \/ DbReturn
    \/ VolContainer
    \/ VolMount
    \/ VolReturn
    \/ PrintSummary

Spec == Init /\ [][Next]_vars

-----------------------------------------------------------------------------
(* Properties of a run of main() *)

DumpCommands ==
    {"inspect_env", "list_databases", "dump_database", "inspect_mounts",
     "docker_tar_mount_source"}
DbNames == {D_appdb, D_shop}
VolumeFiles == {p \in DOMAIN files : p[1] = "volumes"}
TopLevelFiles == {ComposeCopy, DockerDirArchive}

\* The fatal preconditions, read off the inputs of the run: the compose file is
\* missing, the compose config did not load as JSON, no service carries a
\* MySQL/MariaDB signal, or none of those is named by --service.
FatalPrecondition ==
    \/ ~compose_exists
    \/ /\ config_out # None
       /\ LET out == config_out[1]
              svcs == IF "services" \in out.json.keys THEN out.json.services ELSE <<>>
              classified == {svcs[i].name : i \in {j \in DOMAIN svcs : HasSignal(svcs[j])}}
          IN \/ out.code # 0
             \/ out.json.kind = "invalid"
             \/ classified = {}
             \/ args_service # None /\ classified \cap args_service[1] = {}
PreconditionsSettled == pc \notin {"start", "config", "classify"}

\* C2: main exits with code 2 exactly when a fatal precondition fails (a run
\* whose preconditions hold goes on, a run that exits with another code had none
\* failing), and a run that exits with code 2 has created no file and no
\* directory under the output root.
C2_ExitTwoIffFatal ==
    /\ PreconditionsSettled /\ pc # "exited" => ~FatalPrecondition
    /\ pc = "exited" => ((exit_code = Some(2)) <=> FatalPrecondition)
    /\ exit_code = Some(2) => files = <<>> /\ dirs = {}

\* --service nonexistent against a compose file with only a web service.
C2_Witness ==
    /\ pc = "exited"
    /\ exit_code = Some(2)
    /\ args_service = Some({S_nonexistent})
    /\ config = Some(ConfigJson("dict", {"services"}, <<WebService>>))
    /\ files = <<>>

\* C3: once the fatal preconditions have passed, whatever the external commands
\* return, the run ends by printing the summary and exiting with code 0.
C3_AsStated ==
    pc = "exited" /\ ~FatalPrecondition =>
        /\ exit_code = Some(0)
        /\ io # <<>> /\ io[1] = Line("Summary", <<>>, <<>>, <<>>)

\* C4: a service for which no container was resolved is answered, when the loop
\* of main() reaches it, by one [WARN] line and nothing else (no file, no
\* directory, no summary entry); no step runs inspect_env, list_databases,
\* dump_database, inspect_mounts or docker_tar_mount_source for such a service;
\* and a run whose only MySQL service has no container ends with exit code 0
\* and with no database file and no volume archive.
C4_Step ==
    /\ (pc = "svc_loop" /\ svc_i <= Len(mysql_services) /\ mapping[CurSvc] = <<>>) =>
          /\ io' = <<Line("WARN", CurSvc, <<>>, <<"No running containers for service">>)>>
          /\ files' = files /\ dirs' = dirs /\ summary' = summary
          /\ svc_i' = svc_i + 1 /\ pc' = "svc_loop"
    /\ \A i \in DOMAIN io' :
          io'[i].k = "call" /\ io'[i].what \in DumpCommands =>
              mapping'[io'[i].svc] # <<>>
    /\ (pc' = "exited" /\ Len(mysql_services') = 1
            /\ mysql_services'[1] \in DOMAIN mapping'
            /\ mapping'[mysql_services'[1]] = <<>>) =>
          /\ exit_code' = Some(0)
          /\ DOMAIN files' \subseteq TopLevelFiles
          /\ summary' = <<>>
C4_NoContainersIsAWarning == [][C4_Step]_vars

C4_Witness ==
    /\ pc = "exited"
    /\ exit_code = Some(0)
    /\ Len(mysql_services) = 1
    /\ mapping[mysql_services[1]] = <<>>
    /\ DOMAIN files \subseteq TopLevelFiles

\* C1: a database file is never written twice, and a database name met in a
\* container's listing after a sibling container of the same service had it
\* dumped is answered by one [SKIP] line: dump_database is not called and no
\* file is touched.
C1_Step ==
    /\ \A db \in DbNames :
          DbFile(db) \in DOMAIN files' => files'[DbFile(db)].writes = 1
    /\ (/\ pc = "db_dump"
        /\ DbFile(Head(dbs)) \in DOMAIN files
        /\ files[DbFile(Head(dbs))].by \in Range(CurContainers)) =>
          /\ io' = <<Line("SKIP", CurSvc, CurCtr, Head(dbs))>>
          /\ files' = files
          /\ results' = results
C1_DumpedOncePerRun == [][C1_Step]_vars

\* The second container of a service skipping a database its first container
\* has dumped.
C1_Witness ==
    \E s \in {S_db, S_db2} :
        /\ s \in DOMAIN mapping
        /\ mapping[s] = <<ContainerAt(1), ContainerAt(2)>>
        /\ io = <<Line("SKIP", s, ContainerAt(2), D_appdb)>>
        /\ DbFile(D_appdb) \in DOMAIN files
        /\ files[DbFile(D_appdb)] = [of |-> D_appdb, by |-> ContainerAt(1), writes |-> 1]

\* C10: the dedup set of databases changes only in a step that has just written
\* the file of the one database it adds, after a dump that succeeded; a database
\* outside the set is always given to dump_database when a listing yields it; and
\* a failed dump (non-zero exit or missing executable) prints [ERROR] and leaves
\* the set and the files alone.
C10_Step ==
    /\ seen_dbs' # seen_dbs =>
          /\ pc = "db_dump"
          /\ Head(dbs) \notin seen_dbs
          /\ seen_dbs' = seen_dbs \cup {Head(dbs)}
          /\ files' # files
          /\ DbFile(Head(dbs)) \in DOMAIN files'
          /\ files'[DbFile(Head(dbs))].of = Head(dbs)
          /\ files'[DbFile(Head(dbs))].by = CurCtr
          /\ io' = <<Cmd("dump_database", CurSvc, CurCtr, Head(dbs), "ok"),
                     Line("OK", CurSvc, CurCtr, Head(dbs))>>
    /\ (pc = "db_dump" /\ Head(dbs) \notin seen_dbs) =>
          /\ Len(io') = 2
          /\ \E res \in {"ok", "fail", "missing"} :
                /\ io'[1] = Cmd("dump_database", CurSvc, CurCtr, Head(dbs), res)
                /\ res = "ok" => Head(dbs) \in seen_dbs'
                /\ res # "ok" =>
                      /\ io'[2] = Line("ERROR", CurSvc, CurCtr, Head(dbs))
                      /\ seen_dbs' = seen_dbs
                      /\ files' = files
C10_SeenOnlyAfterWrite == [][C10_Step]_vars

\* appdb is listed before shop by the first container, yet its file comes from
\* the second container of the same service: its dump failed on the first one
\* and was tried again.
C10_Witness ==
    \E s \in {S_db, S_db2} :
        /\ s \in DOMAIN mapping
        /\ mapping[s] = <<ContainerAt(1), ContainerAt(2)>>
        /\ DbFile(D_shop) \in DOMAIN files
        /\ files[DbFile(D_shop)].by = ContainerAt(1)
        /\ io = <<Cmd("dump_database", s, ContainerAt(2), D_appdb, "ok"),
                  Line("OK", s, ContainerAt(2), D_appdb)>>
        /\ files[DbFile(D_appdb)].by = ContainerAt(2)
        /\ seen_dbs = {D_shop, D_appdb}

\* C5: the archives under volumes/ are one per archived mount key: as many files
\* as keys, none of them written twice.
C5_AsStated ==
    /\ Cardinality(VolumeFiles) = Cardinality(seen_vols)
    /\ \A p \in VolumeFiles : files[p].writes = 1

\* The docker run commands of the step just taken, in order.
TarCalls ==
    LET IsTar(e) == e.k = "call" /\ e.what = "docker_tar_mount_source"
    IN SelectSeq(io', IsTar)

\* C11: a mount that is to be archived (a usable volume or bind mount whose key
\* is not in the dedup set) has busybox run first; alpine is run exactly when
\* busybox ran and returned a non-zero exit code, and nothing is run after it.
\* When a run exits with code zero the archive written is that image's output,
\* under the mount's file name, and its key enters the dedup set; when none does
\* (both fail, or docker is missing) the step prints [ERROR], writes no file,
\* leaves the dedup set alone, and the loop moves to the next mount.
C11_Step ==
    (pc = "vol_mount" /\ ~MountPlan(Head(mounts)).skip
                      /\ MountPlan(Head(mounts)).key \notin seen_vols) =>
        LET plan == MountPlan(Head(mounts))
            calls == TarCalls
            last == calls[Len(calls)]
        IN /\ Len(calls) \in {1, 2}
           /\ \A i \in DOMAIN calls : calls[i].item = plan.source_spec
           /\ calls[1].img = "busybox"
           /\ (Len(calls) = 2) <=> (calls[1].res = "fail")
           /\ Len(calls) = 2 => calls[2].img = "alpine"
           /\ Len(io') = Len(calls) + 1
           /\ IF last.res = "ok"
              THEN /\ io'[Len(io')] = Line("OK", CurSvc, CurCtr, plan.key)
                   /\ VolFile(plan.out_name) \in DOMAIN files'
                   /\ files'[VolFile(plan.out_name)].of = plan.source_spec
                   /\ files'[VolFile(plan.out_name)].by = <<last.img>>
                   /\ seen_vols' = seen_vols \cup {plan.key}
              ELSE /\ io'[Len(io')] = Line("ERROR", CurSvc, CurCtr, plan.key)
                   /\ files' = files
                   /\ seen_vols' = seen_vols
                   /\ results' = results
           /\ mounts' = Tail(mounts)
           /\ pc' = IF Tail(mounts) = <<>> THEN "vol_loop" ELSE "vol_mount"
           /\ exit_code' = exit_code
C11_HelperImagesInOrder == [][C11_Step]_vars

\* busybox failed, alpine succeeded, and the archive written is alpine's.
C11_Witness ==
    /\ Len(io) = 3
    /\ io[1].what = "docker_tar_mount_source" /\ io[1].img = "busybox" /\ io[1].res = "fail"
    /\ io[2].what = "docker_tar_mount_source" /\ io[2].img = "alpine" /\ io[2].res = "ok"
    /\ io[3].what = "OK"
    /\ \E p \in VolumeFiles : files[p].by = <<"alpine">> /\ files[p].of = io[2].item

\* C12: in a run whose external commands have all succeeded, a database that a
\* container of a service lists is not passed over unless its <database>.sql
\* holds a dump taken from a container of that same service.  (A file once
\* written is never written again, so what holds of it at the [SKIP] holds at
\* the end of the run.)
C12_AsStated ==
    all_ok =>
        \A i \in DOMAIN io :
            io[i].k = "print" /\ io[i].what = "SKIP" =>
                /\ DbFile(io[i].item) \in DOMAIN files
                /\ files[DbFile(io[i].item)].by \in Range(mapping[io[i].svc])

=============================================================================
